---- MODULE Spec2Model ----
(***************************************************************************)
(* paperFinder: the retrieval / aggregation / ranking pipeline.            *)
(*   paper_sources.py  Paper, PaperAggregator._deduplicate                 *)
(*   ai_search.py      AISearchEngine (two-tier ranking),                  *)
(*                     MultiDimensionalFilter.filter                       *)
(*                                                                         *)
(* Text that the code inspects character by character (titles, abstracts,  *)
(* queries, author / venue / field names) is a sequence of one-character   *)
(* strings.  Identifiers that are only compared for equality and tested    *)
(* for truthiness (doi, arxiv_id, pdf_url) are atomic strings.             *)
(* Paper objects live in a heap (id -> fields); lists hold ids, so that    *)
(* an in-place mutation of a record is seen through every list.            *)
(***************************************************************************)
EXTENDS Integers, Sequences, FiniteSets, TLC

VARIABLES
    heap,       \* id -> Paper: the Paper objects of this run
    input,      \* the list handed to the last operation, as it was at the call
    result,     \* the list the last operation returned
    last,       \* the last operation and its arguments
    client,     \* AISearchEngine.client is set (OpenAI configured)
    embCalls    \* ids whose compute_paper_embedding was called by the last operation

vars == <<heap, input, result, last, client, embCalls>>

(***************************************************************************)
(* Bounds of the model.                                                    *)
(***************************************************************************)
MaxDedupLen == 3
MaxFilterLen == 2
MaxRankLen == 3

(***************************************************************************)
(* Python values.                                                          *)
(***************************************************************************)
\* None in a field holding an atomic string (doi, arxiv_id, pdf_url, query).
None == "None"
\* None in a field holding text (venue) or a list.
NoneSeq == <<"None">>
\* None in Optional[int] (year, top_k, max_citations).
NoneInt == -1

\* No embedding: None, and equally the empty list (the code only tests truthiness).
NoEmbedding == <<>>

\* bool(x) for an atomic string, for text / a list, and for an Optional[int].
Truthy(s) == s # None /\ s # ""
TruthySeq(s) == s # NoneSeq /\ s # <<>>
TruthyInt(n) == n # NoneInt /\ n # 0

(***************************************************************************)
(* str methods.                                                            *)
(***************************************************************************)
Uppers == <<"A","B","C","D","E","F","G","H","I","J","K","L","M",
            "N","O","P","Q","R","S","T","U","V","W","X","Y","Z">>
Lowers == <<"a","b","c","d","e","f","g","h","i","j","k","l","m",
            "n","o","p","q","r","s","t","u","v","w","x","y","z">>
Whitespace == {" ", "\t", "\n"}

LowerChar(c) ==
    IF \E i \in 1..Len(Uppers) : Uppers[i] = c
    THEN Lowers[CHOOSE i \in 1..Len(Uppers) : Uppers[i] = c]
    ELSE c

\* str.lower()
lower(s) == [i \in 1..Len(s) |-> LowerChar(s[i])]

\* str.strip()
strip(s) ==
    LET keep == {i \in 1..Len(s) : s[i] \notin Whitespace}
    IN  IF keep = {} THEN <<>>
        ELSE LET lo == CHOOSE i \in keep : \A j \in keep : i <= j
                 hi == CHOOSE i \in keep : \A j \in keep : j <= i
             IN  SubSeq(s, lo, hi)

\* needle in haystack (substring test of str)
Contains(haystack, needle) ==
    \E i \in 0..(Len(haystack) - Len(needle)) :
        \A j \in 1..Len(needle) : haystack[i + j] = needle[j]

\* set(str.split()): the maximal runs of non-whitespace characters
SplitSet(s) ==
    { SubSeq(s, a, b) : <<a, b>> \in
        { p \in (1..Len(s)) \X (1..Len(s)) :
            /\ p[1] <= p[2]
            /\ \A k \in p[1]..p[2] : s[k] \notin Whitespace
            /\ (p[1] = 1 \/ s[p[1] - 1] \in Whitespace)
            /\ (p[2] = Len(s) \/ s[p[2] + 1] \in Whitespace) } }

(***************************************************************************)
(* Paper (paper_sources.py): the fields the pipeline reads or writes.      *)
(***************************************************************************)
Paper(title, authors, abstract, year, doi, pdf_url, source, citations, venue, arxiv_id, fields) ==
    [ title |-> title, authors |-> authors, abstract |-> abstract,
      year |-> year, doi |-> doi, pdf_url |-> pdf_url, source |-> source,
      citations |-> citations, venue |-> venue, arxiv_id |-> arxiv_id,
      fields |-> fields,
      relevance_score |-> [n |-> 0, d |-> 1],   \* relevance_score: float = 0.0
      embedding |-> <<>> ]                      \* embedding = None

(***************************************************************************)
(* PaperAggregator._deduplicate                                            *)
(***************************************************************************)
RECURSIVE DedupLoop(_, _, _, _, _, _)
DedupLoop(h, papers, i, seen_ids, seen_titles, unique_papers) ==
    IF i > Len(papers) THEN unique_papers
    ELSE
      LET paper == h[papers[i]]
          ids1 == IF Truthy(paper.doi) THEN seen_ids \cup {paper.doi} ELSE seen_ids
          ids2 == IF Truthy(paper.arxiv_id) THEN ids1 \cup {paper.arxiv_id} ELSE ids1
          normalized_title == strip(lower(paper.title))
      IN  IF Truthy(paper.doi) /\ paper.doi \in seen_ids
          THEN DedupLoop(h, papers, i + 1, seen_ids, seen_titles, unique_papers)
          ELSE IF Truthy(paper.arxiv_id) /\ paper.arxiv_id \in ids1
          THEN DedupLoop(h, papers, i + 1, ids1, seen_titles, unique_papers)
          ELSE IF normalized_title \in seen_titles
          THEN DedupLoop(h, papers, i + 1, ids2, seen_titles, unique_papers)
          ELSE DedupLoop(h, papers, i + 1, ids2,
                         seen_titles \cup {normalized_title},
                         Append(unique_papers, papers[i]))

\* A deduplication that removes from the list it is iterating over: the
\* element after each removed one is skipped.
RECURSIVE DedupInPlaceLoop(_, _, _, _)
DedupInPlaceLoop(h, papers, i, seen_titles) ==
    IF i > Len(papers) THEN papers
    ELSE
      LET normalized_title == strip(lower(h[papers[i]].title))
      IN  IF normalized_title \in seen_titles
          THEN DedupInPlaceLoop(h,
                   SubSeq(papers, 1, i - 1) \o SubSeq(papers, i + 1, Len(papers)),
                   i + 1, seen_titles)
          ELSE DedupInPlaceLoop(h, papers, i + 1,
                                seen_titles \cup {normalized_title})

DeduplicateInPlace(h, papers) == DedupInPlaceLoop(h, papers, 1, {})

\* A deduplication that records a paper's identifiers only once the paper is
\* kept, so that a paper dropped for its title leaves no identifier behind.
RECURSIVE DedupLateLoop(_, _, _, _, _, _)
DedupLateLoop(h, papers, i, seen_ids, seen_titles, unique_papers) ==
    IF i > Len(papers) THEN unique_papers
    ELSE
      LET paper == h[papers[i]]
          own == {x \in {paper.doi, paper.arxiv_id} : Truthy(x)}
          normalized_title == strip(lower(paper.title))
      IN  IF own \cap seen_ids # {} \/ normalized_title \in seen_titles
          THEN DedupLateLoop(h, papers, i + 1, seen_ids, seen_titles, unique_papers)
          ELSE DedupLateLoop(h, papers, i + 1, seen_ids \cup own,
                             seen_titles \cup {normalized_title},
                             Append(unique_papers, papers[i]))

DeduplicateLate(h, papers) == DedupLateLoop(h, papers, 1, {}, {}, <<>>)

\* A deduplication that keeps the DOIs and the archive ids it has seen in two
\* separate sets, so that a DOI is never compared with an archive id.
RECURSIVE DedupSplitLoop(_, _, _, _, _, _, _)
DedupSplitLoop(h, papers, i, seen_dois, seen_arxiv, seen_titles, unique_papers) ==
    IF i > Len(papers) THEN unique_papers
    ELSE
      LET paper == h[papers[i]]
          dois == IF Truthy(paper.doi) THEN seen_dois \cup {paper.doi} ELSE seen_dois
          arx == IF Truthy(paper.arxiv_id) THEN seen_arxiv \cup {paper.arxiv_id}
                 ELSE seen_arxiv
          normalized_title == strip(lower(paper.title))
      IN  IF Truthy(paper.doi) /\ paper.doi \in seen_dois
          THEN DedupSplitLoop(h, papers, i + 1, seen_dois, seen_arxiv, seen_titles,
                              unique_papers)
          ELSE IF Truthy(paper.arxiv_id) /\ paper.arxiv_id \in seen_arxiv
          THEN DedupSplitLoop(h, papers, i + 1, dois, seen_arxiv, seen_titles,
                              unique_papers)
          ELSE IF normalized_title \in seen_titles
          THEN DedupSplitLoop(h, papers, i + 1, dois, arx, seen_titles, unique_papers)
          ELSE DedupSplitLoop(h, papers, i + 1, dois, arx,
                              seen_titles \cup {normalized_title},
                              Append(unique_papers, papers[i]))

DeduplicateSplit(h, papers) == DedupSplitLoop(h, papers, 1, {}, {}, {}, <<>>)

_deduplicate(h, papers) == DedupLoop(h, papers, 1, {}, {}, <<>>)

InList(x, s) == \E k \in 1..Len(s) : s[k] = x

(***************************************************************************)
(* Scores.  A relevance_score is a rational n/d in lowest terms, d > 0.     *)
(***************************************************************************)
Abs(x) == IF x < 0 THEN 0 - x ELSE x

RECURSIVE GCD(_, _)
GCD(a, b) == IF b = 0 THEN a ELSE GCD(b, a % b)

Ratio(n, d) == LET g == GCD(Abs(n), d) IN [n |-> n \div g, d |-> d \div g]

Zero == Ratio(0, 1)

ScoreLt(a, b) == a.n * b.d < b.n * a.d
ScoreLeq(a, b) == a.n * b.d <= b.n * a.d

(***************************************************************************)
(* list.sort(key=..., reverse=True): descending by key, and stable, i.e.   *)
(* elements with equal keys keep their relative order.  KeyLt[a, b] is     *)
(* key(a) < key(b).                                                        *)
(***************************************************************************)
SortPosition(s, i, KeyLt) ==
    1 + Cardinality({j \in 1..Len(s) : KeyLt[s[i], s[j]]})
      + Cardinality({j \in 1..(i - 1) : ~KeyLt[s[j], s[i]] /\ ~KeyLt[s[i], s[j]]})

SortReverse(s, KeyLt) ==
    [p \in 1..Len(s) |-> s[CHOOSE i \in 1..Len(s) : SortPosition(s, i, KeyLt) = p]]

\* s[:k] for k >= 0
Slice(s, k) == SubSeq(s, 1, IF k < Len(s) THEN k ELSE Len(s))

\* "if top_k: papers = papers[:top_k]"
Cap(s, top_k) == IF TruthyInt(top_k) THEN Slice(s, top_k) ELSE s

(***************************************************************************)
(* AISearchEngine                                                          *)
(***************************************************************************)
Dot(a, b) == IF Len(a) = 0 THEN 0
             ELSE LET F[i \in 0..Len(a)] == IF i = 0 THEN 0 ELSE F[i - 1] + a[i] * b[i]
                  IN  F[Len(a)]

\* The Euclidean norm of an embedding whose squared norm is a perfect square.
Norm(a) == CHOOSE r \in 0..Dot(a, a) : r * r = Dot(a, a)

\* sklearn cosine_similarity(a, b)[0][0] = dot(a, b) / (|a| |b|)
cosine_similarity(a, b) == Ratio(Dot(a, b), Norm(a) * Norm(b))

\* get_embedding: None without a client; otherwise what the embeddings call
\* answered (NoEmbedding when it raised).
get_embedding(cl, answer) == IF ~cl THEN NoEmbedding ELSE answer

compute_paper_embedding(cl, answer) == get_embedding(cl, answer)

\* A Tier-2 sort key that leaves the citation count out.
ScoreOnlyKeyLt(a, b) == ScoreLt(a.relevance_score, b.relevance_score)

\* key of the Tier-2 sort: (relevance_score, citations)
KeywordKeyLt(a, b) ==
    \/ ScoreLt(a.relevance_score, b.relevance_score)
    \/ /\ a.relevance_score = b.relevance_score
       /\ a.citations < b.citations

\* A Tier-1 sort key that orders by citation count.
CitationKeyLt(a, b) == a.citations < b.citations

\* key of the Tier-1 sort: relevance_score
SemanticKeyLt(a, b) == ScoreLt(a.relevance_score, b.relevance_score)

\* A Tier-2 score that counts a word only when it is a whole word of the text.
WholeWordScore(paper, query_words) ==
    LET text == lower(paper.title \o <<" ">> \o paper.abstract)
        word_count == Cardinality(query_words \cap SplitSet(text))
    IN  IF query_words # {} THEN Ratio(word_count, Cardinality(query_words))
        ELSE Zero

\* A Tier-2 score that leaves the paper's score as it is when the query has no
\* words.
KeywordScoreKeep(paper, query_words) ==
    LET text == lower(paper.title \o <<" ">> \o paper.abstract)
        word_count == Cardinality({word \in query_words : Contains(text, word)})
    IN  IF query_words # {} THEN Ratio(word_count, Cardinality(query_words))
        ELSE paper.relevance_score

\* The Tier-2 score of one paper: lines 129-131.
KeywordScore(paper, query_words) ==
    LET text == lower(paper.title \o <<" ">> \o paper.abstract)
        word_count == Cardinality({word \in query_words : Contains(text, word)})
    IN  IF query_words # {} THEN Ratio(word_count, Cardinality(query_words))
        ELSE Zero

\* _rank_by_keywords: the heap after scoring, the list returned, the
\* embedding calls made (none) and the tier that ran.
_rank_by_keywords(h, papers, query, top_k) ==
    LET query_words == SplitSet(lower(query))
        scored == { papers[k] : k \in 1..Len(papers) }
        h2 == [id \in DOMAIN h |->
                 IF id \in scored
                 THEN [h[id] EXCEPT !.relevance_score = KeywordScore(h[id], query_words)]
                 ELSE h[id]]
        sorted == SortReverse(papers, [a, b \in scored |-> KeywordKeyLt(h2[a], h2[b])])
    IN  [heap |-> h2, out |-> Cap(sorted, top_k), calls |-> <<>>, tier |-> 2]

\* A Tier-1 scoring that writes the lower-cased title back to the paper it
\* embeds.
SemanticScoredLowered(cl, paper, query_embedding, answer) ==
    IF ~TruthySeq(paper.abstract)
    THEN [paper EXCEPT !.relevance_score = Zero]
    ELSE LET paper_embedding == compute_paper_embedding(cl, answer)
         IN  IF TruthySeq(paper_embedding)
             THEN [paper EXCEPT
                     !.title = lower(paper.title),
                     !.embedding = paper_embedding,
                     !.relevance_score = cosine_similarity(query_embedding, paper_embedding)]
             ELSE [paper EXCEPT !.title = lower(paper.title), !.relevance_score = Zero]

\* A Tier-1 scoring that leaves a paper without abstract as it was.
SemanticScoredSkip(cl, paper, query_embedding, answer) ==
    IF ~TruthySeq(paper.abstract) THEN paper
    ELSE LET paper_embedding == compute_paper_embedding(cl, answer)
         IN  IF TruthySeq(paper_embedding)
             THEN [paper EXCEPT
                     !.embedding = paper_embedding,
                     !.relevance_score = cosine_similarity(query_embedding, paper_embedding)]
             ELSE [paper EXCEPT !.relevance_score = Zero]

\* The Tier-1 score and embedding of one paper: lines 92-106.  answer is what
\* the embeddings call for this paper answers.
SemanticScored(cl, paper, query_embedding, answer) ==
    IF ~TruthySeq(paper.abstract)
    THEN [paper EXCEPT !.relevance_score = Zero]
    ELSE LET paper_embedding == compute_paper_embedding(cl, answer)
         IN  IF TruthySeq(paper_embedding)
             THEN [paper EXCEPT
                     !.embedding = paper_embedding,
                     !.relevance_score = cosine_similarity(query_embedding, paper_embedding)]
             ELSE [paper EXCEPT !.relevance_score = Zero]

\* rank_papers_by_query.  qAnswer is what the embeddings call for the query
\* answers, pAnswer[id] what the call for paper id answers.
rank_papers_by_query(cl, h, papers, query, top_k, qAnswer, pAnswer) ==
    IF ~cl THEN _rank_by_keywords(h, papers, query, top_k)
    ELSE
      LET query_embedding == get_embedding(cl, qAnswer)
      IN  IF ~TruthySeq(query_embedding)
          THEN _rank_by_keywords(h, papers, query, top_k)
          ELSE
            LET scored == { papers[k] : k \in 1..Len(papers) }
                h2 == [id \in DOMAIN h |->
                         IF id \in scored
                         THEN SemanticScored(cl, h[id], query_embedding, pAnswer[id])
                         ELSE h[id]]
                ranked_papers ==
                    SortReverse(papers, [a, b \in scored |-> SemanticKeyLt(h2[a], h2[b])])
            IN  [heap |-> h2,
                 out |-> Cap(ranked_papers, top_k),
                 calls |-> SelectSeq(papers, LAMBDA id : TruthySeq(h[id].abstract)),
                 tier |-> 1]

(***************************************************************************)
(* MultiDimensionalFilter.filter                                           *)
(***************************************************************************)
\* "no year_range" (None; the empty tuple is falsy as well)
NoRange == <<>>

\* line 334: p.year and start <= p.year <= end
YearOk(p, year_range) ==
    TruthyInt(p.year) /\ year_range[1] <= p.year /\ p.year <= year_range[2]

\* A citation test with a strict comparison.
MinCitationsStrict(p, min_citations) == p.citations > min_citations

\* line 339: p.citations >= min_citations
MinCitationsOk(p, min_citations) == p.citations >= min_citations

\* line 342: p.citations <= max_citations
MaxCitationsOk(p, max_citations) == p.citations <= max_citations

\* lines 346-351
FieldsOk(p, fields) ==
    LET fields_lower == { lower(fields[k]) : k \in 1..Len(fields) }
    IN  \E i \in 1..Len(p.fields) :
          \/ lower(p.fields[i]) \in fields_lower
          \/ \E fl \in fields_lower : Contains(lower(p.fields[i]), fl)

\* line 356: p.pdf_url
PdfOk(p) == Truthy(p.pdf_url)

\* lines 360-363
AuthorOk(p, author_contains) ==
    LET author_query == lower(author_contains)
    IN  \E i \in 1..Len(p.authors) : Contains(lower(p.authors[i]), author_query)

\* lines 368-371
VenueOk(p, venue_contains) ==
    LET venue_query == lower(venue_contains)
    IN  TruthySeq(p.venue) /\ Contains(lower(p.venue), venue_query)

\* lines 327-372: the predicates that need no ranking, applied in order.
StructuralFilter(h, papers, a) ==
    LET f0 == papers
        f1 == IF a.year_range # NoRange
              THEN SelectSeq(f0, LAMBDA id : YearOk(h[id], a.year_range)) ELSE f0
        f2 == IF a.min_citations > 0
              THEN SelectSeq(f1, LAMBDA id : MinCitationsOk(h[id], a.min_citations)) ELSE f1
        f3 == IF a.max_citations # NoneInt
              THEN SelectSeq(f2, LAMBDA id : MaxCitationsOk(h[id], a.max_citations)) ELSE f2
        f4 == IF TruthySeq(a.fields)
              THEN SelectSeq(f3, LAMBDA id : FieldsOk(h[id], a.fields)) ELSE f3
        f5 == IF a.has_pdf
              THEN SelectSeq(f4, LAMBDA id : PdfOk(h[id])) ELSE f4
        f6 == IF TruthySeq(a.author_contains)
              THEN SelectSeq(f5, LAMBDA id : AuthorOk(h[id], a.author_contains)) ELSE f5
        f7 == IF TruthySeq(a.venue_contains)
              THEN SelectSeq(f6, LAMBDA id : VenueOk(h[id], a.venue_contains)) ELSE f6
    IN  f7

\* filter: the structural predicates, then lines 375-377.  tier 0: the ranker
\* was not called.
filter(cl, h, papers, a, qAnswer, pAnswer) ==
    LET filtered == StructuralFilter(h, papers, a)
    IN  IF TruthySeq(a.semantic_query) /\ cl
        THEN LET r == rank_papers_by_query(cl, h, filtered, a.semantic_query, NoneInt,
                                           qAnswer, pAnswer)
             IN  [heap |-> r.heap,
                  out |-> SelectSeq(r.out, LAMBDA id :
                             ScoreLeq(a.semantic_threshold, r.heap[id].relevance_score)),
                  calls |-> r.calls,
                  tier |-> r.tier]
        ELSE [heap |-> h, out |-> filtered, calls |-> <<>>, tier |-> 0]

(***************************************************************************)
(* The operation record.                                                   *)
(***************************************************************************)
\* op: "none" | "dedup" | "rank" | "filter"; for "rank": the query, the cap,
\* the answers of the embeddings service and the tier that ran.
NoOp == [op |-> "none"]

\* What the embeddings service can answer to one call: NoEmbedding when the
\* call raises, else a vector.
QueryAnswers == { NoEmbedding, <<1, 0>> }
PaperAnswers == { NoEmbedding, <<3, 4>>, <<-1, 0>> }

\* The answers to the calls an operation makes for the papers of a list: a
\* paper without abstract is never sent to the service.
AnswersFor(h, papers) ==
    { f \in [DOMAIN h -> PaperAnswers] :
        \A id \in DOMAIN h :
            (~InList(id, papers) \/ ~TruthySeq(h[id].abstract)) => f[id] = NoEmbedding }

(***************************************************************************)
(* Deduplication: the lists that reach _deduplicate.                       *)
(***************************************************************************)
DedupTitles == { <<"a">>, <<"A", " ">>, <<"b">> }
DedupDois == { None, "x", "y" }
DedupArxivIds == { None, "x" }

DedupPool ==
    { Paper(t, <<>>, <<>>, NoneInt, d, None, "semantic_scholar", 0, <<>>, a, <<>>) :
        <<t, d, a>> \in DedupTitles \X DedupDois \X DedupArxivIds }

\* Three records: {"A", doi 10.1/x, 5 citations}, {"A", doi 10.1/x, 50 citations},
\* {"B", no doi, 1 citation}.
ScenarioDedup ==
    << Paper(<<"A">>, <<>>, <<>>, NoneInt, "10.1/x", None, "semantic_scholar", 5,
             <<>>, None, <<>>),
       Paper(<<"A">>, <<>>, <<>>, NoneInt, "10.1/x", None, "arxiv", 50,
             <<>>, None, <<>>),
       Paper(<<"B">>, <<>>, <<>>, NoneInt, None, None, "arxiv", 1,
             <<>>, None, <<>>) >>

InitDedup ==
    /\ \/ \E n \in 0..MaxDedupLen :
            /\ heap \in [1..n -> DedupPool]
            /\ input = [i \in 1..n |-> i]
       \/ /\ heap = ScenarioDedup
          /\ input = <<1, 2, 3>>
    /\ result = <<>>
    /\ last = NoOp
    /\ client \in BOOLEAN
    /\ embCalls = <<>>

Deduplicate ==
    /\ last.op = "none"
    /\ result' = _deduplicate(heap, input)
    /\ last' = [op |-> "dedup"]
    /\ UNCHANGED <<heap, input, client, embCalls>>

NextDedup == Deduplicate

SpecDedup == InitDedup /\ [][NextDedup]_vars

(***************************************************************************)
(* Ranking: the lists that reach rank_papers_by_query.                     *)
(***************************************************************************)
\* A paper as a source adapter builds it, and as _load_session_papers
\* restores it (with the relevance_score of the saved session).
WithScore(paper, score) == [paper EXCEPT !.relevance_score = score]

RankPool ==
    { WithScore(Paper(<<"a", "b">>, <<>>, <<>>, NoneInt, None, None, "arxiv", 7,
                      <<>>, None, <<>>), Ratio(1, 2)),
      Paper(<<"a", "b">>, <<>>, <<"b", " ", "c">>, NoneInt, None, None, "arxiv", 0,
            <<>>, None, <<>>),
      Paper(<<"B">>, <<>>, <<"b", " ", "c">>, NoneInt, None, None, "arxiv", 7,
            <<>>, None, <<>>),
      Paper(<<"B">>, <<>>, <<>>, NoneInt, None, None, "arxiv", 0,
            <<>>, None, <<>>) }

\* A record whose abstract is "A study of COVID vaccine efficacy", and the
\* query "vaccine covid".
ScenarioKeyword ==
    << Paper(<<"T", "r", "i", "a", "l">>, <<>>,
             <<"A", " ", "s", "t", "u", "d", "y", " ", "o", "f", " ",
               "C", "O", "V", "I", "D", " ", "v", "a", "c", "c", "i", "n", "e", " ",
               "e", "f", "f", "i", "c", "a", "c", "y">>,
             NoneInt, None, None, "semantic_scholar", 0, <<>>, None, <<>>) >>

ScenarioQuery ==
    <<"v", "a", "c", "c", "i", "n", "e", " ", "c", "o", "v", "i", "d">>

RankQueries == { <<>>, <<" ">>, <<"a", " ", "A">>, <<"B", " ", "a">>, ScenarioQuery }

TopKs == { NoneInt, 0, 1, 2 }

InitRank ==
    /\ \/ \E n \in 0..MaxRankLen :
            /\ heap \in [1..n -> RankPool]
            /\ input = [i \in 1..n |-> i]
       \/ /\ heap = ScenarioKeyword
          /\ input = <<1>>
    /\ result = <<>>
    /\ last = NoOp
    /\ client \in BOOLEAN
    /\ embCalls = <<>>

Rank ==
    /\ last.op = "none"
    /\ \E query \in RankQueries, top_k \in TopKs,
          qAnswer \in QueryAnswers, pAnswer \in AnswersFor(heap, input) :
         /\ client \/ (qAnswer = NoEmbedding /\ pAnswer = [id \in DOMAIN heap |-> NoEmbedding])
         /\ (qAnswer = NoEmbedding) => pAnswer = [id \in DOMAIN heap |-> NoEmbedding]
         /\ LET r == rank_papers_by_query(client, heap, input, query, top_k,
                                          qAnswer, pAnswer)
            IN  /\ heap' = r.heap
                /\ result' = r.out
                /\ embCalls' = r.calls
                /\ last' = [op |-> "rank", query |-> query, top_k |-> top_k,
                            qAnswer |-> qAnswer, pAnswer |-> pAnswer,
                            tier |-> r.tier, before |-> heap]
    /\ UNCHANGED <<input, client>>

NextRank == Rank

SpecRank == InitRank /\ [][NextRank]_vars

(***************************************************************************)
(* Filtering: the lists and arguments that reach filter.                   *)
(***************************************************************************)
FilterPool ==
    { Paper(<<"a", "b">>, << <<"S", "m", "i", "t", "h">> >>, <<"b", " ", "c">>,
            2021, None, "u", "semantic_scholar", 50, <<"N", "a", "t">>, None,
            << <<"C", "S">> >>),
      Paper(<<"B">>, <<>>, <<>>,
            NoneInt, None, None, "semantic_scholar", 0, NoneSeq, None,
            <<>>),
      Paper(<<"B">>, << <<"L", "e", "e">> >>, <<"b", " ", "c">>,
            2019, None, None, "semantic_scholar", 5, <<>>, None,
            << <<"B", "i", "o">> >>),
      Paper(<<"a", "b">>, << <<"L", "e", "e">>, <<"S", "m", "i", "t", "h">> >>, <<"a">>,
            2021, None, "u", "arxiv", 10, <<"a", "r", "X", "i", "v">>, None,
            << <<"B", "i", "o">>, <<"c", "s", ".", "A", "I">> >>) }

FilterArgs ==
    [ year_range : { NoRange, <<2020, 2022>> },
      min_citations : { 0, 10 },
      max_citations : { NoneInt, 20 },
      fields : { NoneSeq, << <<"c", "s">> >> },
      has_pdf : BOOLEAN,
      author_contains : { NoneSeq, <<"s", "m", "i">> },
      venue_contains : { NoneSeq, <<"N", "A">> },
      semantic_query : { NoneSeq, <<"B", " ", "a">> },
      semantic_threshold : { Ratio(1, 2) } ]

InitFilter ==
    /\ \E n \in 0..MaxFilterLen :
         /\ heap \in [1..n -> FilterPool]
         /\ input = [i \in 1..n |-> i]
    /\ result = <<>>
    /\ last = NoOp
    /\ client \in BOOLEAN
    /\ embCalls = <<>>

Filter ==
    /\ last.op = "none"
    /\ \E a \in FilterArgs, qAnswer \in QueryAnswers :
       \E pAnswer \in AnswersFor(heap, StructuralFilter(heap, input, a)) :
         LET semantic == TruthySeq(a.semantic_query) /\ client
             NoAnswers == [id \in DOMAIN heap |-> NoEmbedding]
         IN
         /\ semantic \/ (qAnswer = NoEmbedding /\ pAnswer = NoAnswers)
         /\ (qAnswer = NoEmbedding) => pAnswer = NoAnswers
         /\ LET r == filter(client, heap, input, a, qAnswer, pAnswer)
            IN  /\ heap' = r.heap
                /\ result' = r.out
                /\ embCalls' = r.calls
                /\ last' = [op |-> "filter", args |-> a,
                            qAnswer |-> qAnswer, pAnswer |-> pAnswer,
                            tier |-> r.tier, before |-> heap]
    /\ UNCHANGED <<input, client>>

NextFilter == Filter

SpecFilter == InitFilter /\ [][NextFilter]_vars

(***************************************************************************)
(* Properties of deduplication.                                            *)
(***************************************************************************)
InSeq(x, s) == \E k \in 1..Len(s) : s[k] = x

NormTitle(id) == strip(lower(heap[id].title))

\* The three-tier identity rule between two records.
SameDocument(a, b) ==
    \/ Truthy(heap[a].doi) /\ heap[a].doi = heap[b].doi
    \/ Truthy(heap[a].arxiv_id) /\ heap[a].arxiv_id = heap[b].arxiv_id
    \/ NormTitle(a) = NormTitle(b)

\* C1: deduplicating the output of a deduplication returns that output
\* unchanged: same records, same order, nothing further removed.
DedupIdempotent ==
    last.op = "dedup" => _deduplicate(heap, result) = result

\* C1 witness: a deduplication that removed a record and kept at least two.
DedupIdempotentWitness ==
    /\ last.op = "dedup"
    /\ Len(result) >= 2
    /\ Len(result) < Len(input)
    /\ _deduplicate(heap, result) = result

\* C2: no record is kept whose DOI equals the DOI of an earlier record of the
\* input; of two records with the same DOI and different titles none but the
\* first survives; the three-record scenario keeps exactly the first "A" and "B".
DedupPriority ==
    last.op = "dedup" =>
      /\ \A i, j \in 1..Len(input) :
            ( /\ i < j
              /\ Truthy(heap[input[i]].doi)
              /\ heap[input[i]].doi = heap[input[j]].doi )
            => ~InSeq(input[j], result)
      /\ ( /\ Len(input) = 2
           /\ Truthy(heap[input[1]].doi)
           /\ heap[input[1]].doi = heap[input[2]].doi
           /\ heap[input[1]].title # heap[input[2]].title )
         => \A k \in 1..Len(result) : result[k] = input[1]
      /\ (heap = ScenarioDedup /\ input = <<1, 2, 3>>) => result = <<1, 3>>

\* C2 witness: two records, same DOI, different titles, and the first alone
\* is returned.
DedupPriorityWitness ==
    /\ last.op = "dedup"
    /\ Len(input) = 2
    /\ Truthy(heap[input[1]].doi)
    /\ heap[input[1]].doi = heap[input[2]].doi
    /\ heap[input[1]].title # heap[input[2]].title
    /\ result = <<input[1]>>

\* No DOI string of the input equals an archive-id string of the input: the
\* two kinds of identifier do not collide in the shared seen_ids set.
CollisionFree ==
    \A i, j \in 1..Len(input) :
        Truthy(heap[input[i]].doi) => heap[input[i]].doi # heap[input[j]].arxiv_id

\* C3 (as claimed, on inputs without identifier collisions): of two records
\* whose titles differ only in letter case or surrounding whitespace, the later
\* one is never returned, whatever identifiers the two carry or lack.
TitleDuplicateDropped ==
    (last.op = "dedup" /\ CollisionFree) =>
      \A i, j \in 1..Len(input) :
        (i < j /\ NormTitle(input[i]) = NormTitle(input[j]))
        => ~InSeq(input[j], result)

\* C4 (as claimed, on inputs without identifier collisions): a record is
\* dropped only if an earlier record that is kept is the same document under
\* the three-tier rule (so the identifiers of a dropped record never cause a
\* drop), and the first record of a non-empty input is always kept.
OnlyDuplicatesOfKeptDropped ==
    (last.op = "dedup" /\ CollisionFree) =>
      /\ \A j \in 1..Len(input) :
            ~InSeq(input[j], result)
            => \E i \in 1..(j - 1) :
                 InSeq(input[i], result) /\ SameDocument(input[i], input[j])
      /\ Len(input) > 0 => InSeq(input[1], result)

(***************************************************************************)
(* Properties of ranking.                                                  *)
(***************************************************************************)
Score(id) == heap[id].relevance_score
Citations(id) == heap[id].citations
One == Ratio(1, 1)

\* The position of a record in the list handed to the operation.
InputIndex(id) == CHOOSE k \in 1..Len(input) : input[k] = id

Uncapped == last.op = "rank" /\ ~TruthyInt(last.top_k)

\* C7: the list returned by Tier 1 is non-increasing in relevance_score; the
\* list returned by Tier 2 is non-increasing in (relevance_score, citations)
\* compared lexicographically; for every input and every cap.
RankingOrder ==
    last.op = "rank" =>
      \A k \in 1..(Len(result) - 1) :
        LET a == result[k]
            b == result[k + 1]
        IN  /\ ScoreLeq(Score(b), Score(a))
            /\ (last.tier = 2 /\ Score(a) = Score(b)) => Citations(b) <= Citations(a)

\* C7 witness: a Tier-2 ranking of three records in which a tie on the score
\* is decided by the citation count against the input order, next to a pair
\* that is strictly ordered by the score.
RankingOrderWitness ==
    /\ last.op = "rank" /\ last.tier = 2
    /\ Len(result) = 3
    /\ \E k \in 1..2 :
         /\ Score(result[k]) = Score(result[k + 1])
         /\ Citations(result[k]) > Citations(result[k + 1])
         /\ InputIndex(result[k]) > InputIndex(result[k + 1])
    /\ \E k \in 1..2 : ScoreLt(Score(result[k + 1]), Score(result[k]))

\* C8: under Tier 1 every record whose abstract is empty gets relevance_score
\* 0.0, no embedding call is made for it, and without a cap it is returned.
AbstractLessFloor ==
    (last.op = "rank" /\ last.tier = 1) =>
      \A k \in 1..Len(input) :
        ~TruthySeq(heap[input[k]].abstract) =>
          /\ Score(input[k]) = Zero
          /\ ~InSeq(input[k], embCalls)
          /\ Uncapped => InSeq(input[k], result)

\* C8 witness: a Tier-1 ranking over a record without abstract that came in
\* with a non-zero score, next to a record that was embedded and scored below
\* the floor.
AbstractLessFloorWitness ==
    /\ last.op = "rank" /\ last.tier = 1 /\ Uncapped
    /\ \E a, b \in DOMAIN heap :
         /\ ~TruthySeq(heap[a].abstract)
         /\ last.before[a].relevance_score # Zero
         /\ Score(a) = Zero
         /\ InSeq(a, result)
         /\ InSeq(b, embCalls)
         /\ ScoreLt(Score(b), Zero)

\* The distinct lowercase whitespace-delimited words of the last query.
QueryWords == SplitSet(lower(last.query))

\* A query word occurs in the lowercased title or in the lowercased abstract.
Occurs(word, id) ==
    \/ Contains(lower(heap[id].title), word)
    \/ Contains(lower(heap[id].abstract), word)

\* C9: under Tier 2 with a non-empty query, relevance_score = (number of
\* distinct query words occurring in the record's text) / (number of distinct
\* query words); it lies in [0, 1] and is 1 exactly when every word occurs;
\* "vaccine covid" against "A study of COVID vaccine efficacy" scores 1.
KeywordScoreFormula ==
    (last.op = "rank" /\ last.tier = 2 /\ QueryWords # {}) =>
      /\ \A k \in 1..Len(input) :
            LET id == input[k]
                hits == {w \in QueryWords : Occurs(w, id)}
            IN  /\ Score(id).n * Cardinality(QueryWords) = Cardinality(hits) * Score(id).d
                /\ ScoreLeq(Zero, Score(id)) /\ ScoreLeq(Score(id), One)
                /\ (Score(id) = One) <=> (\A w \in QueryWords : Occurs(w, id))
      /\ (last.before = ScenarioKeyword /\ last.query = ScenarioQuery) => Score(1) = One

\* C9 witness: a Tier-2 pass with two query words in which one record holds
\* one of them and scores 1/2, and another holds both, each only as a part of
\* a longer word, and scores 1.
KeywordScoreFormulaWitness ==
    /\ last.op = "rank" /\ last.tier = 2
    /\ Cardinality(QueryWords) = 2
    /\ \E a, b \in DOMAIN heap :
         /\ Score(a) = Ratio(1, 2)
         /\ Score(b) = One
         /\ \A w \in QueryWords :
              /\ Occurs(w, b)
              /\ w \notin SplitSet(lower(heap[b].title))
              /\ w \notin SplitSet(lower(heap[b].abstract))

\* C10: under Tier 2 with a query that has no words, every record gets score
\* 0, and the list returned is the input in descending citation order, records
\* with equal citation counts in their input order (a cap keeps the head of
\* that order).
EmptyQueryOrder ==
    (last.op = "rank" /\ last.tier = 2 /\ QueryWords = {}) =>
      /\ \A k \in 1..Len(input) : Score(input[k]) = Zero
      /\ \A k \in 1..Len(result) : InSeq(result[k], input)
      /\ \A k, l \in 1..Len(result) : k # l => result[k] # result[l]
      /\ Uncapped => Len(result) = Len(input)
      /\ \A k \in 1..(Len(result) - 1) :
            \/ Citations(result[k]) > Citations(result[k + 1])
            \/ /\ Citations(result[k]) = Citations(result[k + 1])
               /\ InputIndex(result[k]) < InputIndex(result[k + 1])
      /\ \A k \in 1..Len(input) :
            (Len(result) > 0 /\ ~InSeq(input[k], result)) =>
              LET z == result[Len(result)]
              IN  \/ Citations(z) > Citations(input[k])
                  \/ /\ Citations(z) = Citations(input[k])
                     /\ InputIndex(z) < k

\* C10 witness: a whitespace-only query over three records, two of which tie
\* on the citation count and stay in input order behind a later, more cited one.
EmptyQueryOrderWitness ==
    /\ last.op = "rank" /\ last.tier = 2 /\ Uncapped
    /\ last.query = <<" ">>
    /\ Len(result) = 3
    /\ result = <<3, 1, 2>>
    /\ Citations(1) = Citations(2)
    /\ Citations(3) > Citations(1)

(***************************************************************************)
(* Properties of filtering.                                                *)
(***************************************************************************)
SetOf(s) == { s[k] : k \in 1..Len(s) }

\* The record satisfies every active predicate of the last filter call,
\* each taken on its own.
SatisfiesActive(id) ==
    LET p == heap[id]
        a == last.args
    IN  /\ a.year_range # NoRange =>
            (p.year # NoneInt /\ a.year_range[1] <= p.year /\ p.year <= a.year_range[2])
        /\ a.min_citations > 0 => ~(p.citations < a.min_citations)
        /\ a.max_citations # NoneInt => ~(p.citations > a.max_citations)
        /\ TruthySeq(a.fields) =>
            \E i \in 1..Len(p.fields), j \in 1..Len(a.fields) :
                Contains(lower(p.fields[i]), lower(a.fields[j]))
        /\ a.has_pdf => p.pdf_url \notin {None, ""}
        /\ TruthySeq(a.author_contains) =>
            \E i \in 1..Len(p.authors) : Contains(lower(p.authors[i]), lower(a.author_contains))
        /\ TruthySeq(a.venue_contains) =>
            (p.venue \notin {NoneSeq, <<>>} /\ Contains(lower(p.venue), lower(a.venue_contains)))
        /\ (TruthySeq(a.semantic_query) /\ client) =>
            ScoreLeq(a.semantic_threshold, p.relevance_score)

\* C5: for every combination of active predicates, the records returned by
\* filter are exactly the input records that satisfy every active predicate;
\* an inactive predicate removes nothing.
FilterIntersection ==
    last.op = "filter" =>
      SetOf(result) = { id \in SetOf(input) : SatisfiesActive(id) }

\* C5 witness: a call with the year, citation, field and semantic predicates
\* active that keeps one of two records, the kept one with exactly the minimum
\* citation count.
FilterIntersectionWitness ==
    /\ last.op = "filter"
    /\ last.args.year_range # NoRange
    /\ last.args.min_citations > 0
    /\ TruthySeq(last.args.fields)
    /\ TruthySeq(last.args.semantic_query) /\ client
    /\ Len(input) = 2
    /\ Len(result) = 1
    /\ heap[result[1]].citations = last.args.min_citations

\* C6 (as claimed): with a semantic query and threshold given, when there is
\* no client or the embedding call for the query fails, every record that
\* passes the other active predicates is returned; and a record whose own
\* embedding call fails is returned if it passes the other active predicates.
SemanticDegradation ==
    (last.op = "filter" /\ TruthySeq(last.args.semantic_query)) =>
      \A id \in SetOf(StructuralFilter(last.before, input, last.args)) :
        ( \/ ~client
          \/ last.qAnswer = NoEmbedding
          \/ (InSeq(id, embCalls) /\ last.pAnswer[id] = NoEmbedding) )
        => InSeq(id, result)

(***************************************************************************)
(* Properties of the fallback and of the cap of rank_papers_by_query.      *)
(***************************************************************************)
\* The embedding capability was unavailable to the last ranking: no client,
\* or the call for the query failed, or the call for some record failed.
CapabilityFailed ==
    \/ ~client
    \/ last.qAnswer = NoEmbedding
    \/ \E k \in 1..Len(embCalls) : last.pAnswer[embCalls[k]] = NoEmbedding

\* C15 (as claimed): whenever the capability is not configured, or the query
\* embedding call fails, or a record embedding call fails, the ranking
\* returned is the Tier-2 keyword ranking: keyword scores on the records, in
\* the order of (score, citations).
TierTwoOnFailure ==
    (last.op = "rank" /\ CapabilityFailed) =>
      LET r == _rank_by_keywords(last.before, input, last.query, last.top_k)
      IN  /\ last.tier = 2
          /\ result = r.out
          /\ heap = r.heap

\* C16 (as claimed): with a cap k >= 0 the list returned is the first
\* min(k, n) records of the uncapped ranking, for k = 0 as well; without a
\* cap it is the whole ranking.
CapTruncation ==
    last.op = "rank" =>
      LET full == rank_papers_by_query(client, last.before, input, last.query,
                                       NoneInt, last.qAnswer, last.pAnswer).out
      IN  IF last.top_k = NoneInt THEN result = full
          ELSE /\ result = Slice(full, last.top_k)
               /\ Len(result) <= last.top_k

(***************************************************************************)
(* _parse_indices (paper_finder.py): the selection string of the push      *)
(* command.                                                                *)
(***************************************************************************)
Digits == <<"0", "1", "2", "3", "4", "5", "6", "7", "8", "9">>

DigitValue(c) == (CHOOSE i \in 1..10 : Digits[i] = c) - 1

IsDigit(c) == \E i \in 1..10 : Digits[i] = c

\* str.split(sep) for a one-character separator: the parts between the
\* separators, empty parts included; always at least one part.
RECURSIVE SplitOn(_, _)
SplitOn(s, sep) ==
    IF \A i \in 1..Len(s) : s[i] # sep THEN << s >>
    ELSE LET i == CHOOSE j \in 1..Len(s) :
                    s[j] = sep /\ \A k \in 1..(j - 1) : s[k] # sep
         IN  << SubSeq(s, 1, i - 1) >> \o SplitOn(SubSeq(s, i + 1, Len(s)), sep)

\* The digits of an integer literal: digits, with single underscores allowed
\* between them.
IsDigitString(s) ==
    /\ Len(s) > 0
    /\ IsDigit(s[1]) /\ IsDigit(s[Len(s)])
    /\ \A i \in 1..Len(s) : IsDigit(s[i]) \/ s[i] = "_"
    /\ \A i \in 1..(Len(s) - 1) : ~(s[i] = "_" /\ s[i + 1] = "_")

RECURSIVE DigitsValue(_)
DigitsValue(s) ==
    IF Len(s) = 0 THEN 0
    ELSE IF s[Len(s)] = "_" THEN DigitsValue(SubSeq(s, 1, Len(s) - 1))
    ELSE 10 * DigitsValue(SubSeq(s, 1, Len(s) - 1)) + DigitValue(s[Len(s)])

\* int(s) does not raise ValueError: surrounding whitespace, an optional
\* sign, then the digits.
IntOk(s) ==
    LET t == strip(s)
    IN  /\ Len(t) > 0
        /\ IF t[1] \in {"+", "-"} THEN IsDigitString(SubSeq(t, 2, Len(t)))
           ELSE IsDigitString(t)

\* int(s)
IntOf(s) ==
    LET t == strip(s)
    IN  IF t[1] = "-" THEN 0 - DigitsValue(SubSeq(t, 2, Len(t)))
        ELSE IF t[1] = "+" THEN DigitsValue(SubSeq(t, 2, Len(t)))
        ELSE DigitsValue(t)

\* The positions one part of the selection adds to `selected`, or the empty
\* set when it raises ValueError: lines 450-461.
PartPositions(raw) ==
    LET part == strip(raw)
    IN  IF \E i \in 1..Len(part) : part[i] = "-"
        THEN LET pieces == SplitOn(part, "-")
             IN  IF Len(pieces) = 2 /\ IntOk(pieces[1]) /\ IntOk(pieces[2])
                 THEN IntOf(pieces[1])..IntOf(pieces[2])
                 ELSE {}
        ELSE IF IntOk(part) THEN { IntOf(part) } ELSE {}

\* The part raises ValueError.
PartInvalid(raw) ==
    LET part == strip(raw)
    IN  IF \E i \in 1..Len(part) : part[i] = "-"
        THEN LET pieces == SplitOn(part, "-")
             IN  ~(Len(pieces) = 2 /\ IntOk(pieces[1]) /\ IntOk(pieces[2]))
        ELSE ~IntOk(part)

\* [papers[i - 1] for i in sorted(selected) if 1 <= i <= len(papers)]
RECURSIVE PickSorted(_, _, _)
PickSorted(papers, selected, i) ==
    IF i > Len(papers) THEN <<>>
    ELSE (IF i \in selected THEN << papers[i] >> ELSE <<>>)
         \o PickSorted(papers, selected, i + 1)

\* A selection in which one part that raises ValueError empties the whole
\* selection.
ParseIndicesAbort(papers, indices_str) ==
    IF lower(indices_str) = <<"a", "l", "l">> THEN papers
    ELSE LET parts == SplitOn(indices_str, ",")
             selected == UNION { PartPositions(parts[k]) : k \in 1..Len(parts) }
         IN  IF \E k \in 1..Len(parts) : PartInvalid(parts[k]) THEN <<>>
             ELSE PickSorted(papers, selected, 1)

_parse_indices(papers, indices_str) ==
    IF lower(indices_str) = <<"a", "l", "l">> THEN papers
    ELSE LET parts == SplitOn(indices_str, ",")
             selected == UNION { PartPositions(parts[k]) : k \in 1..Len(parts) }
         IN  PickSorted(papers, selected, 1)

(***************************************************************************)
(* Selection: the session lists and selection strings that reach           *)
(* _parse_indices.                                                         *)
(***************************************************************************)
MaxSelectLen == 5
MaxSelectParts == 2

\* The parts a user types between the commas.
SelectTokens ==
    { <<"1">>, <<"3", "-", "4">>, <<"9">>, <<" ", "2", " ">>, <<"x">>,
      <<"2", "-", "x">>, <<"1", "-", "2", "-", "3">>, <<"-", "3">>,
      <<"4", "-", "3">>, <<>>, <<"0">>, <<"2", "-", "9">>, <<"+", "2">> }

RECURSIVE JoinTokens(_)
JoinTokens(ts) ==
    IF Len(ts) = 0 THEN <<>>
    ELSE IF Len(ts) = 1 THEN ts[1]
    ELSE ts[1] \o <<",">> \o JoinTokens(Tail(ts))

SelectStrings ==
    { JoinTokens(ts) : ts \in UNION { [1..k -> SelectTokens] : k \in 1..MaxSelectParts } }
    \cup { <<"a", "l", "l">>, <<"A", "L", "L">>, <<" ", "a", "l", "l">> }

\* The i-th paper of a saved session.
SessionPaper(i) ==
    Paper(<<"p">>, <<>>, <<>>, NoneInt, None, None, "arxiv", i, <<>>, None, <<>>)

InitSelect ==
    /\ \E n \in 0..MaxSelectLen :
         /\ heap = [i \in 1..n |-> SessionPaper(i)]
         /\ input = [i \in 1..n |-> i]
    /\ result = <<>>
    /\ last = NoOp
    /\ client = FALSE
    /\ embCalls = <<>>

Select ==
    /\ last.op = "none"
    /\ \E indices_str \in SelectStrings :
         /\ result' = _parse_indices(input, indices_str)
         /\ last' = [op |-> "select", indices_str |-> indices_str]
    /\ UNCHANGED <<heap, input, client, embCalls>>

NextSelect == Select

SpecSelect == InitSelect /\ [][NextSelect]_vars

(***************************************************************************)
(* Properties of the selection.                                            *)
(***************************************************************************)
\* s[a..b] is a token of s: a maximal stretch without a comma.
IsToken(s, a, b) ==
    /\ \A k \in a..b : s[k] # ","
    /\ (a = 1 \/ s[a - 1] = ",")
    /\ (b = Len(s) \/ s[b + 1] = ",")

\* The token t, surrounding whitespace aside, is "N" and names position p, or
\* is "N-M" with N <= p <= M; N and M are integer literals as int() reads them.
TokenNames(t, p) ==
    \/ /\ \A k \in 1..Len(t) : t[k] # "-"
       /\ IntOk(t) /\ IntOf(t) = p
    \/ \E d \in 1..Len(t) :
         /\ t[d] = "-"
         /\ \A k \in 1..Len(t) : t[k] = "-" => k = d
         /\ IntOk(SubSeq(t, 1, d - 1)) /\ IntOk(SubSeq(t, d + 1, Len(t)))
         /\ IntOf(SubSeq(t, 1, d - 1)) <= p
         /\ p <= IntOf(SubSeq(t, d + 1, Len(t)))

\* Some token of the selection string names position p.
Named(p) ==
    LET s == last.indices_str
    IN  \E a \in 1..(Len(s) + 1) : \E b \in (a - 1)..Len(s) :
          IsToken(s, a, b) /\ TokenNames(strip(SubSeq(s, a, b)), p)

\* "9" over five records selects nothing, and "x,3-4" the records at
\* positions 3 and 4.
SelectionScenarios ==
    Len(input) = 5 =>
      /\ last.indices_str = <<"9">> => result = <<>>
      /\ last.indices_str = <<"x", ",", "3", "-", "4">> => result = << input[3], input[4] >>

\* C11: for a selection string other than "all", the records returned are
\* exactly those at the positions in 1..n that a well-formed token names, each
\* once and in ascending position; positions out of range are dropped and a
\* malformed token is skipped on its own; "all" returns every record.
IndexSelection ==
    last.op = "select" =>
      IF lower(last.indices_str) = <<"a", "l", "l">> THEN result = input
      ELSE /\ \A p \in 1..Len(input) : Named(p) <=> InSeq(input[p], result)
           /\ \A k \in 1..Len(result) : InSeq(result[k], input)
           /\ \A j, k \in 1..Len(result) :
                j < k => InputIndex(result[j]) < InputIndex(result[k])
           /\ SelectionScenarios

\* C11 witness: "1,3-4" over five records returns the records at positions
\* 1, 3 and 4.
IndexSelectionWitness ==
    /\ last.op = "select"
    /\ last.indices_str = <<"1", ",", "3", "-", "4">>
    /\ Len(input) = 5
    /\ result = << input[1], input[3], input[4] >>

(***************************************************************************)
(* Source adapters (paper_sources.py): SemanticScholarAPI.search and       *)
(* ArxivAPI.search.  What the provider answers is the input of an adapter. *)
(***************************************************************************)
\* A key that the provider's JSON object does not carry; JSON null is None.
MissingSeq == <<"Missing">>

\* dict.get(key, default) on a value that may be missing
DictGet(value, default) == IF value = MissingSeq THEN default ELSE value

\* "limit": min(limit, 100)  -- API max is 100
SemanticScholarMax == 100

\* The page size arXiv serves at most in one request.
ArxivMax == 2000

Min(a, b) == IF a < b THEN a ELSE b

\* One element of data["data"]: the keys the adapter reads.
S2Item(title, doi, arxiv, citationCount) ==
    [title |-> title, doi |-> doi, arxiv |-> arxiv, citationCount |-> citationCount]

\* Paper(...) of lines 156-169 for one item.
S2Paper(item) ==
    Paper(DictGet(item.title, <<>>), <<>>, <<>>, NoneInt, item.doi, None,
          "semantic_scholar", item.citationCount, <<>>, item.arxiv, <<>>)

\* The for loop of lines 131-170 over the items from position i on.
RECURSIVE S2Loop(_, _, _)
S2Loop(items, i, min_citations) ==
    IF i > Len(items) THEN <<>>
    ELSE IF items[i].citationCount < min_citations
         THEN S2Loop(items, i + 1, min_citations)
         ELSE << S2Paper(items[i]) >> \o S2Loop(items, i + 1, min_citations)

\* What a request to Semantic Scholar comes to:
\*   "ok"         a well-formed answer carrying items;
\*   "transport"  session.get or raise_for_status raises a RequestException;
\*   "badjson"    the body is not JSON: response.json() raises, with a class
\*                that is a RequestException or not, depending on the version
\*                of requests the program runs with (caught says which);
\*   "malformed"  the body is JSON of another shape than the loop expects
\*                (e.g. "data": null, "authors": null): TypeError or
\*                AttributeError inside the try block.
S2Caught(outcome) ==
    \/ outcome.kind = "transport"
    \/ outcome.kind = "badjson" /\ outcome.caught

\* SemanticScholarAPI.search: the limit sent, the papers returned, or raised.
SemanticScholarSearch(outcome, limit, min_citations) ==
    [ sent |-> Min(limit, SemanticScholarMax),
      raised |-> outcome.kind # "ok" /\ ~S2Caught(outcome),
      papers |-> IF outcome.kind = "ok" THEN S2Loop(outcome.items, 1, min_citations)
                 ELSE <<>> ]

\* result.entry_id.split("/")[-1] on the entry ids of the feed.
LastSegment(entry_id) ==
    CASE entry_id = "http://arxiv.org/abs/x" -> "x"
      [] entry_id = "http://arxiv.org/abs/y" -> "y"

\* One arxiv.Result: the attributes the adapter reads.
ArxivResult(title, doi, entry_id) == [title |-> title, doi |-> doi, entry_id |-> entry_id]

\* Paper(...) of lines 270-282 for one result.
ArxivPaper(r) ==
    Paper(r.title, <<>>, <<>>, NoneInt, r.doi, None, "arxiv", 0,
          <<"a", "r", "X", "i", "v">>, LastSegment(r.entry_id), <<>>)

\* ArxivAPI.search.  outcome.results are the results the feed yields; with
\* kind "error" an exception follows them (raised by arxiv.Search or by the
\* results() generator) and is caught by "except Exception": the papers
\* appended before it are returned.
ArxivSearch(outcome, limit) ==
    [ sent |-> limit,
      raised |-> FALSE,
      papers |-> [k \in 1..Len(outcome.results) |-> ArxivPaper(outcome.results[k])] ]

\* _deduplicate raises AttributeError: a paper whose title is None reaches
\* "paper.title.lower()" (line 356), i.e. is not skipped by an identifier.
RECURSIVE DedupRaises(_, _, _, _)
DedupRaises(h, papers, i, seen_ids) ==
    IF i > Len(papers) THEN FALSE
    ELSE
      LET paper == h[papers[i]]
          ids1 == IF Truthy(paper.doi) THEN seen_ids \cup {paper.doi} ELSE seen_ids
          ids2 == IF Truthy(paper.arxiv_id) THEN ids1 \cup {paper.arxiv_id} ELSE ids1
      IN  IF Truthy(paper.doi) /\ paper.doi \in seen_ids
          THEN DedupRaises(h, papers, i + 1, seen_ids)
          ELSE IF Truthy(paper.arxiv_id) /\ paper.arxiv_id \in ids1
          THEN DedupRaises(h, papers, i + 1, ids1)
          ELSE paper.title = NoneSeq \/ DedupRaises(h, papers, i + 1, ids2)

(***************************************************************************)
(* PaperAggregator.search_all, step by step: the call of each requested    *)
(* adapter, then the deduplication.  last.pc is the statement it is at.    *)
(***************************************************************************)
MaxSourceItems == 2

\* "if sources is None: sources = [...]" and the tests "name in sources".
Requested(name, sources) ==
    IF sources = NoneSeq THEN name \in {"semantic_scholar", "arxiv"}
    ELSE InList(name, sources)

\* The statement after the Semantic Scholar block, and the first statement.
AfterSemanticScholar(sources) == IF Requested("arxiv", sources) THEN "arxiv" ELSE "dedup"

FirstStatement(sources) ==
    IF Requested("semantic_scholar", sources) THEN "semantic_scholar"
    ELSE AfterSemanticScholar(sources)

SeqsUpTo(S, n) == UNION { [1..k -> S] : k \in 0..n }

S2Pool ==
    { S2Item(<<"a">>, "d1", None, 5),
      S2Item(<<"b">>, "d1", None, 50),
      S2Item(MissingSeq, None, None, 0),
      S2Item(NoneSeq, None, "x", 20) }

S2Outcomes ==
    { [kind |-> "ok", items |-> is, caught |-> FALSE] : is \in SeqsUpTo(S2Pool, MaxSourceItems) }
    \cup { [kind |-> "transport", items |-> <<>>, caught |-> TRUE],
           [kind |-> "malformed", items |-> <<>>, caught |-> FALSE],
           [kind |-> "badjson", items |-> <<>>, caught |-> TRUE],
           [kind |-> "badjson", items |-> <<>>, caught |-> FALSE] }

ArxivPool ==
    { ArxivResult(<<"b">>, None, "http://arxiv.org/abs/y"),
      ArxivResult(<<"A">>, "d1", "http://arxiv.org/abs/x"),
      ArxivResult(<<>>, None, "http://arxiv.org/abs/y") }

ArxivOutcomes ==
    { [kind |-> k, results |-> rs] :
        k \in {"ok", "error"}, rs \in SeqsUpTo(ArxivPool, MaxSourceItems) }

SearchSources ==
    { NoneSeq, <<"semantic_scholar">>, <<"arxiv">>, <<"arxiv", "semantic_scholar">> }

SearchLimits == { 50, 2001 }

SearchMinCitations == { 0, 10 }

\* The ids of k papers appended to a heap of n.
NewIds(n, k) == [i \in 1..k |-> n + i]

InitSearch ==
    /\ heap = <<>>
    /\ input = <<>>
    /\ result = <<>>
    /\ client = FALSE
    /\ embCalls = <<>>
    /\ \E sources \in SearchSources, limit \in SearchLimits,
          min_citations \in SearchMinCitations :
         last = [op |-> "search_all", pc |-> FirstStatement(sources),
                 sources |-> sources, limit |-> limit,
                 min_citations |-> min_citations,
                 calls |-> <<>>, failed |-> {},
                 s2_sent |-> NoneInt, arxiv_sent |-> NoneInt,
                 s2_papers |-> <<>>, arxiv_papers |-> <<>>]

\* ss_papers = self.semantic_scholar.search(...); all_papers.extend(ss_papers)
SearchSemanticScholar ==
    /\ last.op = "search_all" /\ last.pc = "semantic_scholar"
    /\ \E outcome \in S2Outcomes :
         LET r == SemanticScholarSearch(outcome, last.limit, last.min_citations)
             ids == NewIds(Len(heap), Len(r.papers))
         IN  /\ heap' = heap \o r.papers
             /\ input' = IF r.raised THEN input ELSE input \o ids
             /\ last' = [last EXCEPT
                           !.pc = IF r.raised THEN "raised"
                                  ELSE AfterSemanticScholar(last.sources),
                           !.calls = Append(@, "semantic_scholar"),
                           !.failed = IF outcome.kind # "ok"
                                      THEN @ \cup {"semantic_scholar"} ELSE @,
                           !.s2_sent = r.sent,
                           !.s2_papers = ids]
    /\ UNCHANGED <<result, client, embCalls>>

\* arxiv_papers = self.arxiv.search(query, limit=limit); all_papers.extend(arxiv_papers)
SearchArxiv ==
    /\ last.op = "search_all" /\ last.pc = "arxiv"
    /\ \E outcome \in ArxivOutcomes :
         LET r == ArxivSearch(outcome, last.limit)
             ids == NewIds(Len(heap), Len(r.papers))
         IN  /\ heap' = heap \o r.papers
             /\ input' = input \o ids
             /\ last' = [last EXCEPT
                           !.pc = "dedup",
                           !.calls = Append(@, "arxiv"),
                           !.failed = IF outcome.kind # "ok"
                                      THEN @ \cup {"arxiv"} ELSE @,
                           !.arxiv_sent = r.sent,
                           !.arxiv_papers = ids]
    /\ UNCHANGED <<result, client, embCalls>>

\* deduped = self._deduplicate(all_papers); return deduped
DeduplicateMerged ==
    /\ last.op = "search_all" /\ last.pc = "dedup"
    /\ IF DedupRaises(heap, input, 1, {})
       THEN /\ last' = [last EXCEPT !.pc = "raised", !.calls = Append(@, "_deduplicate")]
            /\ UNCHANGED result
       ELSE /\ result' = _deduplicate(heap, input)
            /\ last' = [last EXCEPT !.pc = "done", !.calls = Append(@, "_deduplicate")]
    /\ UNCHANGED <<heap, input, client, embCalls>>

NextSearch == SearchSemanticScholar \/ SearchArxiv \/ DeduplicateMerged

SpecSearch == InitSearch /\ [][NextSearch]_vars

(***************************************************************************)
(* Properties of the adapters and of search_all.                           *)
(***************************************************************************)
\* The papers an adapter contributed to the merged list.
Contribution(name) ==
    IF name = "semantic_scholar" THEN last.s2_papers ELSE last.arxiv_papers

\* The exception left search_all from the call of this adapter.
RaisedIn(name) ==
    last.pc = "raised" /\ last.calls[Len(last.calls)] = name

\* C12 (as claimed): an adapter that hits a transport or provider error, a
\* malformed answer included, returns an empty sequence and does not raise,
\* and search_all returns the deduplicated records of the other sources.
SourceFailureNonFatal ==
    last.op = "search_all" =>
      \A name \in last.failed :
        /\ ~RaisedIn(name)
        /\ Contribution(name) = <<>>

\* C13 (as claimed): every record an adapter produces has a non-empty title,
\* and an item without title is dropped without an error being surfaced.
TitleNeverEmpty ==
    last.op = "search_all" =>
      /\ \A id \in DOMAIN heap : TruthySeq(heap[id].title)
      /\ ~RaisedIn("_deduplicate")

\* C14 (as claimed): the count each adapter asks its provider for is
\* min(limit, the provider's maximum), for Semantic Scholar and arXiv alike.
LimitCapped ==
    last.op = "search_all" =>
      /\ InList("semantic_scholar", last.calls) =>
            last.s2_sent = Min(last.limit, SemanticScholarMax)
      /\ InList("arxiv", last.calls) =>
            last.arxiv_sent = Min(last.limit, ArxivMax)

\* C20 (as claimed): only the requested adapters are called; the merged list
\* is the records of the first adapter called followed by those of the next;
\* deduplication starts after every requested adapter has been called; and of
\* a document that comes from both sources the copy of the later adapter is
\* not returned.
ConcatenateThenDedup ==
    last.op = "search_all" =>
      /\ \A k \in 1..Len(last.calls) :
            last.calls[k] = "_deduplicate" \/ Requested(last.calls[k], last.sources)
      /\ last.pc # "raised" => input = last.s2_papers \o last.arxiv_papers
      /\ InList("_deduplicate", last.calls) =>
            \A name \in {"semantic_scholar", "arxiv"} :
               Requested(name, last.sources) => InList(name, last.calls)
      /\ last.pc = "done" =>
            \A k \in 1..Len(last.s2_papers), j \in 1..Len(last.arxiv_papers) :
               SameDocument(last.s2_papers[k], last.arxiv_papers[j])
               => ~InSeq(last.arxiv_papers[j], result)

(***************************************************************************)
(* AISearchEngine.find_similar_papers                                      *)
(***************************************************************************)
\* The id under which the embedding call for the reference paper is logged;
\* the candidates have the ids 1, 2, ...
RefId == 0

\* A scoring of the candidates that does not set the reference itself aside.
SimilarScoredAll(cl, paper, reference_paper, ref_embedding, answer) ==
    LET paper_embedding == compute_paper_embedding(cl, answer)
    IN  IF TruthySeq(paper_embedding)
        THEN [paper EXCEPT
                !.relevance_score = cosine_similarity(ref_embedding, paper_embedding)]
        ELSE [paper EXCEPT !.relevance_score = Zero]

\* The score of one candidate: lines 170-181.  answer is what the embeddings
\* call for this candidate answers.
SimilarScored(cl, paper, reference_paper, ref_embedding, answer) ==
    IF paper.title = reference_paper.title
    THEN [paper EXCEPT !.relevance_score = Zero]
    ELSE LET paper_embedding == compute_paper_embedding(cl, answer)
         IN  IF TruthySeq(paper_embedding)
             THEN [paper EXCEPT
                     !.relevance_score = cosine_similarity(ref_embedding, paper_embedding)]
             ELSE [paper EXCEPT !.relevance_score = Zero]

\* find_similar_papers: the heap after it, the list returned, the embedding
\* calls made, the path taken, and candidate_papers as the call leaves it
\* (both sorts are in place).  refAnswer is what the embeddings call for the
\* reference answers, pAnswer[id] what a call for candidate id answers.
find_similar_papers(cl, h, reference_paper, candidate_papers, top_k, refAnswer, pAnswer) ==
    IF ~cl
    THEN LET r == rank_papers_by_query(cl, h, candidate_papers, reference_paper.title,
                                       top_k, NoEmbedding, pAnswer)
             full == rank_papers_by_query(cl, h, candidate_papers, reference_paper.title,
                                          NoneInt, NoEmbedding, pAnswer)
         IN  [heap |-> r.heap, out |-> r.out, calls |-> <<>>, path |-> "keyword",
              list_after |-> full.out]
    ELSE
      LET ref_embedding == compute_paper_embedding(cl, refAnswer)
      IN  IF ~TruthySeq(ref_embedding)
          THEN [heap |-> h, out |-> Slice(candidate_papers, top_k),
                calls |-> << RefId >>, path |-> "unranked",
                list_after |-> candidate_papers]
          ELSE
            LET scored == { candidate_papers[k] : k \in 1..Len(candidate_papers) }
                h2 == [id \in DOMAIN h |->
                         IF id \in scored
                         THEN SimilarScored(cl, h[id], reference_paper, ref_embedding,
                                            pAnswer[id])
                         ELSE h[id]]
                sorted == SortReverse(candidate_papers,
                                      [a, b \in scored |-> SemanticKeyLt(h2[a], h2[b])])
            IN  [heap |-> h2,
                 out |-> Slice(sorted, top_k),
                 calls |-> << RefId >> \o
                           SelectSeq(candidate_papers,
                                     LAMBDA id : h[id].title # reference_paper.title),
                 path |-> "semantic",
                 list_after |-> sorted]

(***************************************************************************)
(* Similar papers: the candidates and references that reach                *)
(* find_similar_papers.                                                    *)
(***************************************************************************)
MaxSimilarLen == 2

SimilarRefs ==
    { Paper(<<"a", "b">>, <<>>, <<"b", " ", "c">>, NoneInt, None, None, "arxiv", 0,
            <<>>, None, <<>>),
      Paper(<<"b">>, <<>>, <<>>, NoneInt, None, None, "arxiv", 0,
            <<>>, None, <<>>) }

\* top_k: int = 10
SimilarTopKs == { 0, 1, 10 }

InitSimilar ==
    /\ \E n \in 0..MaxSimilarLen :
         /\ heap \in [1..n -> RankPool]
         /\ input = [i \in 1..n |-> i]
    /\ result = <<>>
    /\ last = NoOp
    /\ client \in BOOLEAN
    /\ embCalls = <<>>

FindSimilar ==
    /\ last.op = "none"
    /\ \E reference_paper \in SimilarRefs, top_k \in SimilarTopKs,
          refAnswer \in QueryAnswers, pAnswer \in [DOMAIN heap -> PaperAnswers] :
         /\ client \/ refAnswer = NoEmbedding
         /\ refAnswer = NoEmbedding => pAnswer = [id \in DOMAIN heap |-> NoEmbedding]
         /\ LET r == find_similar_papers(client, heap, reference_paper, input, top_k,
                                         refAnswer, pAnswer)
            IN  /\ heap' = r.heap
                /\ result' = r.out
                /\ embCalls' = r.calls
                /\ last' = [op |-> "similar", ref |-> reference_paper, top_k |-> top_k,
                            refAnswer |-> refAnswer, pAnswer |-> pAnswer,
                            path |-> r.path, list_after |-> r.list_after,
                            before |-> heap]
    /\ UNCHANGED <<input, client>>

NextSimilar == FindSimilar

SpecSimilar == InitSimilar /\ [][NextSimilar]_vars

(***************************************************************************)
(* Properties of find_similar_papers.                                      *)
(***************************************************************************)
\* The number of embedding calls logged for an id.
CallCount(id) == Cardinality({ k \in 1..Len(embCalls) : embCalls[k] = id })

\* The embeddings were available to the last find_similar_papers: the client
\* is configured and the call for the reference answered a vector.
SimilarAvailable == last.op = "similar" /\ client /\ last.refAnswer # NoEmbedding

\* C17: with embeddings available, the reference embedding is computed once;
\* a candidate whose title equals the reference title gets score 0 and stays
\* in the candidate list; every other candidate is scored by its cosine
\* similarity to the reference, 0 if its embedding call fails; the result is
\* the first top_k candidates in non-increasing score order.
SimilarRanking ==
    SimilarAvailable =>
      /\ CallCount(RefId) = 1
      /\ \A id \in SetOf(input) :
           IF heap[id].title = last.ref.title
           THEN /\ Score(id) = Zero
                /\ InSeq(id, last.list_after)
                /\ CallCount(id) = 0
           ELSE /\ CallCount(id) = 1
                /\ Score(id) = IF last.pAnswer[id] = NoEmbedding THEN Zero
                               ELSE cosine_similarity(last.refAnswer, last.pAnswer[id])
      /\ SetOf(last.list_after) = SetOf(input)
      /\ Len(last.list_after) = Len(input)
      /\ \A k \in 1..(Len(last.list_after) - 1) :
           ScoreLeq(Score(last.list_after[k + 1]), Score(last.list_after[k]))
      /\ result = Slice(last.list_after, last.top_k)

\* C17 witness: two candidates, the first with the title of the reference and
\* the second with a negative similarity; the reference-titled one is scored
\* 0 without a call and is the one record returned under top_k = 1.
SimilarRankingWitness ==
    /\ SimilarAvailable
    /\ Len(input) = 2 /\ last.top_k = 1
    /\ heap[input[2]].title = last.ref.title
    /\ heap[input[1]].title # last.ref.title
    /\ ScoreLt(Score(input[1]), Zero)
    /\ result = << input[2] >>

\* C18 (as claimed): when the client is not configured or the embedding call
\* for the reference fails, the result is the Tier-2 keyword ranking of the
\* candidates with the reference title as the query, capped at top_k.
SimilarFallback ==
    (last.op = "similar" /\ ~SimilarAvailable) =>
      LET r == _rank_by_keywords(last.before, input, last.ref.title, NoneInt)
      IN  /\ result = Slice(r.out, last.top_k)
          /\ heap = r.heap

(***************************************************************************)
(* AISearchEngine.refine_search_query                                      *)
(***************************************************************************)
\* What the chat completion call comes to:
\*   "nocall"    no call is made (no client);
\*   "raise"     client.chat.completions.create raises;
\*   "nochoice"  the response has no choices: response.choices[0] raises;
\*   "content"   response.choices[0].message.content is `content`, a string
\*               or None.
RefineOutcome(kind, content) == [kind |-> kind, content |-> content]

\* The try block runs to its return statement: the call answers, and the
\* content is a string, so that content.strip() does not raise.
RefineSucceeds(outcome) == outcome.kind = "content" /\ outcome.content # NoneSeq

\* A refinement that returns an empty query when the call fails.
RefineOrEmpty(cl, user_query, outcome) ==
    IF ~cl THEN user_query
    ELSE IF RefineSucceeds(outcome) THEN strip(outcome.content)
    ELSE <<>>

refine_search_query(cl, user_query, outcome) ==
    IF ~cl THEN user_query
    ELSE IF RefineSucceeds(outcome) THEN strip(outcome.content)
    ELSE user_query

(***************************************************************************)
(* Refinement: the queries and answers that reach refine_search_query.     *)
(***************************************************************************)
MaxQueryLen == 3

RefineQueries == SeqsUpTo({"a", " "}, MaxQueryLen)

RefineContents == { NoneSeq, <<>>, <<" ">>, <<"q">>, <<" ", "q", " ", "r", "\n">> }

RefineOutcomes ==
    { RefineOutcome("raise", NoneSeq), RefineOutcome("nochoice", NoneSeq) }
    \cup { RefineOutcome("content", c) : c \in RefineContents }

InitRefine ==
    /\ heap = <<>>
    /\ input \in RefineQueries
    /\ result = <<>>
    /\ last = NoOp
    /\ client \in BOOLEAN
    /\ embCalls = <<>>

Refine ==
    /\ last.op = "none"
    /\ \E outcome \in RefineOutcomes \cup { RefineOutcome("nocall", NoneSeq) } :
         /\ outcome.kind = "nocall" <=> ~client
         /\ result' = refine_search_query(client, input, outcome)
         /\ last' = [op |-> "refine", outcome |-> outcome]
    /\ UNCHANGED <<heap, input, client, embCalls>>

NextRefine == Refine

SpecRefine == InitRefine /\ [][NextRefine]_vars

RECURSIVE IsSubsequence(_, _)
IsSubsequence(s, t) ==
    IF s = <<>> THEN TRUE
    ELSE IF t = <<>> THEN FALSE
    ELSE IF Head(s) = Head(t) THEN IsSubsequence(Tail(s), Tail(t))
    ELSE IsSubsequence(s, Tail(t))

\* C26: the output of _deduplicate is a subsequence of its input (the same
\* record instances in the same relative order), and among the records of the
\* output no two have the same normalized title, no two the same DOI, no two
\* the same archive id, and no record's DOI is another record's archive id.
DedupOutputInvariant ==
    last.op = "dedup" =>
      /\ IsSubsequence(result, input)
      /\ \A i, j \in 1..Len(result) :
            i # j =>
              LET a == heap[result[i]]
                  b == heap[result[j]]
              IN  /\ result[i] # result[j]
                  /\ NormTitle(result[i]) # NormTitle(result[j])
                  /\ Truthy(a.doi) => a.doi # b.doi
                  /\ Truthy(a.arxiv_id) => a.arxiv_id # b.arxiv_id
                  /\ Truthy(a.doi) => a.doi # b.arxiv_id

\* C26 witness: three records, the second with another title than the first
\* and dropped because its DOI is the archive id of the first, the other two
\* returned, and both of them carry an identifier.
DedupOutputInvariantWitness ==
    /\ last.op = "dedup"
    /\ Len(input) = 3
    /\ result = <<input[1], input[3]>>
    /\ NormTitle(input[1]) # NormTitle(input[2])
    /\ Truthy(heap[input[1]].arxiv_id)
    /\ heap[input[2]].doi = heap[input[1]].arxiv_id
    /\ ~Truthy(heap[input[2]].arxiv_id)
    /\ Truthy(heap[input[3]].doi)

(***************************************************************************)
(* The output of rank_papers_by_query as a whole.                          *)
(***************************************************************************)
\* A score no ranking computes: cosine similarities and word ratios are at
\* most 1.
Stale == Ratio(2, 1)

\* The number of positions of the list s that hold x.
Occurrences(x, s) == Cardinality({ k \in 1..Len(s) : s[k] = x })

\* The invocation of the last ranking, run on records that all came in with
\* the score Stale.
RankAgain ==
    rank_papers_by_query(client,
                         [id \in DOMAIN last.before |-> WithScore(last.before[id], Stale)],
                         input, last.query, last.top_k, last.qAnswer, last.pAnswer)

\* C27: when rank_papers_by_query is called without a cap, the list returned
\* by either tier holds every record of the input exactly once and nothing
\* else, and the relevance_score of every input record is the one this
\* invocation wrote: it does not depend on the score the record came in with.
RankPermutation ==
    (last.op = "rank" /\ last.top_k = NoneInt) =>
      /\ Len(result) = Len(input)
      /\ \A k \in 1..Len(input) : Occurrences(input[k], result) = 1
      /\ \A k \in 1..Len(input) :
           /\ RankAgain.heap[input[k]].relevance_score # Stale
           /\ RankAgain.heap[input[k]].relevance_score = Score(input[k])

\* C27 witness: an uncapped Tier-1 ranking of three records that returns them
\* in another order, over a record without abstract that came in with a
\* non-zero score and a record whose embedding call failed.
RankPermutationWitness ==
    /\ last.op = "rank" /\ last.top_k = NoneInt /\ last.tier = 1
    /\ Len(input) = 3 /\ Len(result) = 3
    /\ result # input
    /\ \E a, b \in DOMAIN heap :
         /\ ~TruthySeq(heap[a].abstract)
         /\ last.before[a].relevance_score # Zero
         /\ InSeq(a, result)
         /\ InSeq(b, embCalls)
         /\ last.pAnswer[b] = NoEmbedding
         /\ InSeq(b, result)

(***************************************************************************)
(* A pipeline run: successive calls of _deduplicate, filter,               *)
(* rank_papers_by_query and find_similar_papers on the same record         *)
(* instances, each call taking the list the call before it returned.       *)
(* result is the list the run holds, embCalls the embedding calls of the   *)
(* whole run, last the call made last.                                     *)
(***************************************************************************)
MaxPipelineSteps == 2

\* The records of the run.  The first is a record as _load_session_papers
\* restores it, with the relevance_score of the saved session; the third has
\* the title of the second up to letter case and surrounding whitespace.
PipelineHeap ==
    << WithScore(Paper(<<"a", "b">>, <<>>, <<>>, NoneInt, None, None, "arxiv", 7,
                       <<>>, None, <<>>), Ratio(1, 2)),
       Paper(<<"B">>, <<>>, <<"b", " ", "c">>, 2021, "x", None, "semantic_scholar", 7,
             <<>>, None, <<>>),
       Paper(<<"b", " ">>, <<>>, <<"b", " ", "c">>, NoneInt, None, "y", "arxiv", 0,
             <<>>, None, <<>>) >>

\* The arguments of filter in the run: a citation floor and a semantic query,
\* each present or absent.
PipelineFilterArgs ==
    { a \in FilterArgs :
        /\ a.year_range = NoRange
        /\ a.max_citations = NoneInt
        /\ a.fields = NoneSeq
        /\ ~a.has_pdf
        /\ a.author_contains = NoneSeq
        /\ a.venue_contains = NoneSeq }

PipelineQuery == <<"B", " ", "a">>
PipelineTopKs == { NoneInt, 1 }
PipelineReference ==
    Paper(<<"a", "b">>, <<>>, <<"b", " ", "c">>, NoneInt, None, None, "arxiv", 0,
          <<>>, None, <<>>)

\* The embeddings service during one call of the pipeline: it answers every
\* request, it answers the request for the query (or the reference) and fails
\* the requests for the records, or it fails every request.
PipelineServices == { "up", "records_fail", "down" }

ServiceQueryAnswer(svc) == IF svc = "down" THEN NoEmbedding ELSE <<1, 0>>

ServicePaperAnswer(svc) ==
    [id \in DOMAIN PipelineHeap |->
       IF svc # "up" THEN NoEmbedding
       ELSE IF id = 2 THEN <<3, 4>> ELSE <<-1, 0>>]

\* The records as they are when every one of them comes in with the score
\* Stale, and the records of a heap whose score is no longer Stale.
Marked(h) == [id \in DOMAIN h |-> WithScore(h[id], Stale)]
Written(h) == { id \in DOMAIN h : h[id].relevance_score # Stale }

InitPipeline ==
    /\ heap = PipelineHeap
    /\ input = <<1, 2, 3>>
    /\ result = input
    /\ last = [op |-> "none", step |-> 0]
    /\ client \in BOOLEAN
    /\ embCalls = <<>>

PipelineDedup ==
    /\ last.step < MaxPipelineSteps
    /\ result' = _deduplicate(heap, result)
    /\ last' = [op |-> "dedup", step |-> last.step + 1, before |-> heap,
                written |-> {}, semantic |-> FALSE]
    /\ UNCHANGED <<heap, input, client, embCalls>>

PipelineFilter ==
    /\ last.step < MaxPipelineSteps
    /\ \E a \in PipelineFilterArgs, svc \in PipelineServices :
         /\ (TruthySeq(a.semantic_query) /\ client) \/ svc = "down"
         /\ LET r == filter(client, heap, result, a,
                            ServiceQueryAnswer(svc), ServicePaperAnswer(svc))
                m == filter(client, Marked(heap), result, a,
                            ServiceQueryAnswer(svc), ServicePaperAnswer(svc))
            IN  /\ heap' = r.heap
                /\ result' = r.out
                /\ embCalls' = embCalls \o r.calls
                /\ last' = [op |-> "filter", step |-> last.step + 1, before |-> heap,
                            written |-> Written(m.heap),
                            semantic |-> TruthySeq(a.semantic_query)]
    /\ UNCHANGED <<input, client>>

PipelineRank ==
    /\ last.step < MaxPipelineSteps
    /\ \E top_k \in PipelineTopKs, svc \in PipelineServices :
         /\ client \/ svc = "down"
         /\ LET r == rank_papers_by_query(client, heap, result, PipelineQuery, top_k,
                                          ServiceQueryAnswer(svc), ServicePaperAnswer(svc))
                m == rank_papers_by_query(client, Marked(heap), result, PipelineQuery,
                                          top_k, ServiceQueryAnswer(svc),
                                          ServicePaperAnswer(svc))
            IN  /\ heap' = r.heap
                /\ result' = r.out
                /\ embCalls' = embCalls \o r.calls
                /\ last' = [op |-> "rank", step |-> last.step + 1, before |-> heap,
                            written |-> Written(m.heap), semantic |-> TRUE]
    /\ UNCHANGED <<input, client>>

PipelineSimilar ==
    /\ last.step < MaxPipelineSteps
    /\ \E svc \in PipelineServices :
         /\ client \/ svc = "down"
         /\ LET r == find_similar_papers(client, heap, PipelineReference, result, 10,
                                         ServiceQueryAnswer(svc), ServicePaperAnswer(svc))
                m == find_similar_papers(client, Marked(heap), PipelineReference, result,
                                         10, ServiceQueryAnswer(svc),
                                         ServicePaperAnswer(svc))
            IN  /\ heap' = r.heap
                /\ result' = r.out
                /\ embCalls' = embCalls \o r.calls
                /\ last' = [op |-> "similar", step |-> last.step + 1, before |-> heap,
                            written |-> Written(m.heap), semantic |-> TRUE]
    /\ UNCHANGED <<input, client>>

NextPipeline == PipelineDedup \/ PipelineFilter \/ PipelineRank \/ PipelineSimilar

SpecPipeline == InitPipeline /\ [][NextPipeline]_vars

(***************************************************************************)
(* Properties of a pipeline run.                                           *)
(***************************************************************************)
\* C21 (as claimed): over the whole run the embeddings service is asked for
\* the embedding of any one record at most once, whatever sequence of ranking
\* and semantic-filter calls the run is made of.
EmbeddingComputedOnce ==
    \A id \in DOMAIN heap : CallCount(id) <= 1

\* The fields of a record that neither ranking field is part of.
Frame(paper) ==
    [ title |-> paper.title, authors |-> paper.authors, abstract |-> paper.abstract,
      year |-> paper.year, doi |-> paper.doi, pdf_url |-> paper.pdf_url,
      source |-> paper.source, citations |-> paper.citations, venue |-> paper.venue,
      arxiv_id |-> paper.arxiv_id, fields |-> paper.fields ]

\* C22 (as claimed): after a call of rank_papers_by_query, find_similar_papers
\* or filter, every record of the list it returns has a relevance_score that
\* this call wrote or that is 0.0: no score of an earlier call or of a saved
\* session is left on a returned record.
NoStaleScores ==
    last.op \in {"rank", "similar", "filter"} =>
      \A k \in 1..Len(result) :
        result[k] \in last.written \/ Score(result[k]) = Zero

\* C25: through a whole run of dedup, filter, ranking and find_similar_papers
\* every record keeps its title, doi, arxiv_id, authors, abstract, year, venue,
\* fields, citations, pdf_url and source: only relevance_score and embedding
\* ever change; and a dedup or a filter call without semantic query leaves
\* every field of every record as it was before the call.
FrameCondition ==
    /\ DOMAIN heap = DOMAIN PipelineHeap
    /\ \A id \in DOMAIN heap : Frame(heap[id]) = Frame(PipelineHeap[id])
    /\ (last.op = "dedup" \/ (last.op = "filter" /\ ~last.semantic)) =>
         heap = last.before

\* C25 witness: a run of two calls, the first a Tier-1 ranking or semantic
\* filter that changed the relevance_score and the embedding of a record, the
\* second a dedup that changed nothing.
FrameConditionWitness ==
    /\ last.op = "dedup" /\ last.step = 2
    /\ heap = last.before
    /\ Len(result) < Len(input)
    /\ \E id \in DOMAIN heap :
         /\ heap[id].relevance_score # PipelineHeap[id].relevance_score
         /\ heap[id].embedding # PipelineHeap[id].embedding

(***************************************************************************)
(* The search command after search_all: the filter step and the ranking    *)
(* step (paper_finder.py, lines 193-209).                                  *)
(***************************************************************************)
MaxCommandLen == 2

\* line 334 for one paper: "p.year and start <= p.year <= end" raises
\* TypeError when it compares an int with None.  A paper without year is not
\* compared at all; start is compared first, and end only if start <= p.year.
YearRaises(p, year_range) ==
    /\ TruthyInt(p.year)
    /\ \/ year_range[1] = NoneInt
       \/ year_range[1] <= p.year /\ year_range[2] = NoneInt

\* filter raises: the year filter is the first predicate and sees every paper.
FilterRaises(h, papers, a) ==
    /\ a.year_range # NoRange
    /\ \E k \in 1..Len(papers) : YearRaises(h[papers[k]], a.year_range)

\* line 197: (year_start, year_end) if year_start or year_end else None
YearRangeOf(year_start, year_end) ==
    IF TruthyInt(year_start) \/ TruthyInt(year_end)
    THEN <<year_start, year_end>> ELSE NoRange

\* lines 195-201: the arguments search hands to filter.
SearchFilterArgs(year_start, year_end, min_citations, pdf_only) ==
    [ year_range |-> YearRangeOf(year_start, year_end),
      min_citations |-> min_citations,
      max_citations |-> NoneInt,
      fields |-> NoneSeq,
      has_pdf |-> pdf_only,
      author_contains |-> NoneSeq,
      venue_contains |-> NoneSeq,
      semantic_query |-> NoneSeq,
      semantic_threshold |-> Ratio(1, 2) ]

\* The papers search_all returned: with and without a year.
CommandPool ==
    { Paper(<<"a", "b">>, <<>>, <<"b", " ", "c">>, NoneInt, None, None,
            "semantic_scholar", 50, <<>>, None, <<>>),
      Paper(<<"B">>, <<>>, <<"b", " ", "c">>, 2021, None, "u", "arxiv", 0,
            <<>>, None, <<>>),
      Paper(<<"B">>, <<>>, <<>>, 2019, None, None, "semantic_scholar", 50,
            <<>>, None, <<>>) }

\* --year-start, --year-end (absent by default), --min-citations, --limit
CommandYearStarts == { NoneInt, 2020 }
CommandYearEnds == { NoneInt, 2022 }
CommandMinCitations == { 0, 10 }
CommandLimits == { 1, 20 }

\* last.pc is the position in search: "filter" before line 195, "rank" before
\* line 204, "done" after line 209, "raised" when an exception left search.
InitCommand ==
    /\ \E n \in 1..MaxCommandLen :
         /\ heap \in [1..n -> CommandPool]
         /\ input = [i \in 1..n |-> i]
    /\ result = input
    /\ last = [op |-> "search", pc |-> "filter"]
    /\ client \in BOOLEAN
    /\ embCalls = <<>>

CommandFilter ==
    /\ last.pc = "filter"
    /\ \E year_start \in CommandYearStarts, year_end \in CommandYearEnds,
          min_citations \in CommandMinCitations, pdf_only \in BOOLEAN :
         LET a == SearchFilterArgs(year_start, year_end, min_citations, pdf_only)
             NoAnswers == [id \in DOMAIN heap |-> NoEmbedding]
         IN  IF FilterRaises(heap, result, a)
             THEN /\ result' = <<>>
                  /\ last' = [op |-> "search", pc |-> "raised", args |-> a]
             ELSE /\ result' = filter(client, heap, result, a, NoEmbedding, NoAnswers).out
                  /\ last' = [op |-> "search", pc |-> "rank", args |-> a]
    /\ UNCHANGED <<heap, input, client, embCalls>>

CommandRank ==
    /\ last.pc = "rank"
    /\ \E ai_rank \in BOOLEAN, limit \in CommandLimits, qAnswer \in QueryAnswers :
         /\ (client /\ ai_rank) \/ qAnswer = NoEmbedding
         /\ IF ai_rank
            THEN LET pAnswer == [id \in DOMAIN heap |->
                                   IF qAnswer = NoEmbedding THEN NoEmbedding ELSE <<3, 4>>]
                     r == rank_papers_by_query(client, heap, result, PipelineQuery, limit,
                                               qAnswer, pAnswer)
                 IN  /\ heap' = r.heap
                     /\ result' = r.out
                     /\ embCalls' = r.calls
            ELSE /\ result' = Slice(result, limit)
                 /\ UNCHANGED <<heap, embCalls>>
         /\ last' = [op |-> "search", pc |-> "done", args |-> last.args,
                     ai_rank |-> ai_rank, limit |-> limit]
    /\ UNCHANGED <<input, client>>

NextCommand == CommandFilter \/ CommandRank

SpecCommand == InitCommand /\ [][NextCommand]_vars

\* C24 (as claimed): whatever the search options are, with one of year-start
\* and year-end absent and with records that have no year among them, the
\* filter step of search completes and hands a list to the ranking step: no
\* exception leaves it.
FilterNeverAborts ==
    last.op = "search" => last.pc # "raised"

(***************************************************************************)
(* ZoteroClient.search_library and ZoteroClient.check_duplicates.  What    *)
(* the library answers to a query is an input: kind "ok" with the items    *)
(* found, or kind "error" when self.client.items raises.  client is here   *)
(* "the Zotero client is configured".                                      *)
(***************************************************************************)
MaxZoteroLen == 2

\* One item of the library: the keys search_library reads.
ZoteroItem(key, title) == [key |-> key, data |-> [title |-> title]]

\* A duplicate test that compares the titles as they are.
SameTitleVerbatim(item_title, paper_title) == item_title = paper_title

\* line 326: item["title"].lower().strip() == paper.title.lower().strip()
SameTitle(item_title, paper_title) ==
    strip(lower(item_title)) = strip(lower(paper_title))

\* search_library: [] without client, [] when the query raises, else one
\* dict per item, with "" for a title the item does not carry.
search_library(cl, answer) ==
    IF ~cl THEN <<>>
    ELSE IF answer.kind # "ok" THEN <<>>
    ELSE [k \in 1..Len(answer.items) |->
            [key |-> answer.items[k].key,
             title |-> DictGet(answer.items[k].data.title, <<>>)]]

\* The for loop of lines 320-333 from position i on; answers[i] is what the
\* library answers to the query for papers[i].
RECURSIVE CheckDuplicatesLoop(_, _, _, _, _, _)
CheckDuplicatesLoop(cl, h, papers, i, answers, new_papers) ==
    IF i > Len(papers) THEN new_papers
    ELSE
      LET paper == h[papers[i]]
          existing == search_library(cl, answers[i])
          is_duplicate == \E k \in 1..Len(existing) :
                             SameTitle(existing[k].title, paper.title)
      IN  CheckDuplicatesLoop(cl, h, papers, i + 1, answers,
                              IF ~is_duplicate THEN Append(new_papers, papers[i])
                              ELSE new_papers)

\* check_duplicates: the papers returned and the queries sent.
check_duplicates(cl, h, papers, answers) ==
    IF ~cl THEN [out |-> papers, queries |-> <<>>]
    ELSE [out |-> CheckDuplicatesLoop(cl, h, papers, 1, answers, <<>>),
          queries |-> [k \in 1..Len(papers) |-> Slice(h[papers[k]].title, 50)]]

\* The papers selected for the push, and what the library holds.
ZoteroTitles == { <<"a", "b">>, <<" ", "A", "b">>, <<"c">>, <<>> }

ZoteroPool ==
    { Paper(t, <<>>, <<>>, NoneInt, None, None, "arxiv", 0, <<>>, None, <<>>) :
        t \in ZoteroTitles }

LibraryAnswers ==
    { [kind |-> "error", items |-> <<>>],
      [kind |-> "ok", items |-> <<>>],
      [kind |-> "ok", items |-> << ZoteroItem("K1", <<"A", "B", " ">>) >>],
      [kind |-> "ok", items |-> << ZoteroItem("K2", MissingSeq),
                                   ZoteroItem("K3", <<"c">>) >>],
      [kind |-> "ok", items |-> << ZoteroItem("K4", <<"a", "b", "c">>) >>] }

NoAnswer == [kind |-> "error", items |-> <<>>]

InitZotero ==
    /\ \E n \in 0..MaxZoteroLen :
         /\ heap \in [1..n -> ZoteroPool]
         /\ input = [i \in 1..n |-> i]
    /\ result = <<>>
    /\ last = NoOp
    /\ client \in BOOLEAN
    /\ embCalls = <<>>

CheckDuplicates ==
    /\ last.op = "none"
    /\ \E answers \in [1..Len(input) -> LibraryAnswers] :
         /\ client \/ answers = [k \in 1..Len(input) |-> NoAnswer]
         /\ LET r == check_duplicates(client, heap, input, answers)
            IN  /\ result' = r.out
                /\ last' = [op |-> "check_duplicates", answers |-> answers,
                            queries |-> r.queries]
    /\ UNCHANGED <<heap, input, client, embCalls>>

NextZotero == CheckDuplicates

SpecZotero == InitZotero /\ [][NextZotero]_vars

\* The titles of the items the library returned to the k-th query: none when
\* the query failed.
ReturnedTitles(k) ==
    IF last.answers[k].kind = "ok"
    THEN { DictGet(last.answers[k].items[j].data.title, <<>>) :
             j \in 1..Len(last.answers[k].items) }
    ELSE {}

\* C23: check_duplicates returns, in input order, exactly the papers for
\* which no item the library returned to the paper's title query has the
\* paper's title up to letter case and surrounding whitespace; a query that
\* failed returned no item, so its paper is returned; without a configured
\* client the input is returned as it is and no query is sent.
CheckDuplicatesExact ==
    last.op = "check_duplicates" =>
      /\ IsSubsequence(result, input)
      /\ ~client => (result = input /\ last.queries = <<>>)
      /\ client =>
           \A k \in 1..Len(input) :
             InSeq(input[k], result) <=>
               ~\E t \in ReturnedTitles(k) :
                  strip(lower(t)) = strip(lower(heap[input[k]].title))
      /\ \A k \in 1..Len(input) :
           (client /\ last.answers[k].kind = "error") => InSeq(input[k], result)

\* C23 witness: with a configured client, two papers, the first left out
\* because the library returned an item whose title differs from its own in
\* letter case and whitespace only, the second returned because its query
\* failed.
CheckDuplicatesExactWitness ==
    /\ last.op = "check_duplicates" /\ client
    /\ Len(input) = 2
    /\ result = <<input[2]>>
    /\ last.answers[1].kind = "ok"
    /\ \E t \in ReturnedTitles(1) :
         /\ t # heap[input[1]].title
         /\ strip(lower(t)) = strip(lower(heap[input[1]].title))
    /\ last.answers[2].kind = "error"
====
